---- MODULE Spec2Model ----
(***************************************************************************)
(* Model of watchtower's docker client (container/client.go): the          *)
(* shutdown sequencer StopContainer with its polling wait waitForStop, the *)
(* recreation engine StartContainer and the staleness detector             *)
(* IsContainerStale, each run against a Docker daemon whose answers are    *)
(* chosen nondeterministically among those the daemon can give in its      *)
(* current state.                                                          *)
(***************************************************************************)
EXTENDS Integers, Sequences, FiniteSets, TLC

\* ------------------------------------------------------------------ bounds
MaxTimeout == 2   \* the largest timeout handed to StopContainer, in seconds
MaxLatency == 1   \* the longest an inspect round trip adds to the 1 s sleep
MaxNets == 2      \* the networks a container can be attached to
MaxImages == 2    \* the image ids an image reference can resolve to
MaxExit == 3      \* the largest exit code of a command run by ExecuteCommand

\* A wait issues at most timeout inspects; kill and remove add two calls.
MaxCalls == 2 * MaxTimeout + 2

\* --------------------------------------------------------------- constants
defaultStopSignal == "SIGTERM"

OldId == "c1"      \* the id of the container of the snapshot
NewId == "c2"      \* the id the daemon gives the container it creates
OldId2 == "c3"     \* the id of a second container, named "db"
NewId2 == "c4"     \* the id the daemon gives the second container it creates
Ids == {OldId, NewId, OldId2, NewId2}
Signals == {"", "SIGHUP"}
Nets == 1..MaxNets
EndpointSettings == {"ep1", "ep2"}
ImageIds == 1..MaxImages
NoNetworks == [k \in {} |-> "ep1"]
\* map[string]*network.EndpointSettings: network -> endpoint settings
NetworkMaps == UNION {[D -> EndpointSettings] : D \in SUBSET Nets}

VARIABLES
    c,          \* the Container snapshot handed to the operation
    exists,     \* daemon: ids of the containers that exist
    running,    \* daemon: ids of the containers whose State.Running is true
    doomed,     \* daemon: ids whose removal was accepted and not yet done
    nameOf,     \* daemon: the name of each existing container
    attached,   \* daemon: the network map of each existing container
    calls,      \* the daemon calls issued so far, in order, with their answers
    stopPc,     \* StopContainer: position in the function
    timeout,    \* StopContainer: its timeout argument, in seconds
    elapsed,    \* waitForStop: seconds since time.After(waitTime) was armed
    polls,      \* waitForStop: inspects issued by the current wait
    waitRets,   \* the values the finished waitForStop calls returned
    stopRet,    \* StopContainer: the error returned
    atCall,     \* the daemon's state of c when StopContainer was called
    startPc,    \* StartContainer: position in the function
    simple,     \* StartContainer: simpleNetworkConfig.EndpointsConfig
    creation,   \* StartContainer: creation.ID ("" before create returned)
    toDisconnect, \* StartContainer: keys the disconnect loop has yet to visit
    toConnect,  \* StartContainer: keys the connect loop has yet to visit
    startRet,   \* StartContainer: the (id, error) returned
    pullImages, \* dockerClient.pullImages
    localImage, \* daemon: the id the image reference resolves to (0: none)
    registryImage, \* registry: the id the image reference resolves to
    stalePc,    \* IsContainerStale: position in the function
    newImageId, \* IsContainerStale: newImageInfo.ID (0 before the inspect)
    staleRet,   \* IsContainerStale: the (bool, error) returned
    execPc,     \* ExecuteCommand: position in the function
    command,    \* ExecuteCommand: its command argument
    attachErr,  \* ExecuteCommand: attachErr
    execOutput, \* ExecuteCommand: execOutput
    execLog,    \* ExecuteCommand: what it logged, in order
    execRet,    \* ExecuteCommand: the error returned
    infoOf,     \* daemon: per container, its configuration and its image id
    getPc,      \* GetContainer: position in the function
    getId,      \* GetContainer: its containerID argument
    containerInfo, \* GetContainer: containerInfo
    getRet,     \* GetContainer: the (Container, error) returned
    listPc,     \* ListContainers: position in the function
    fn,         \* ListContainers: its Filter argument
    runningContainers, \* ListContainers: runningContainers
    next,       \* ListContainers: index of the loop in runningContainers
    cs,         \* ListContainers: cs
    fetched,    \* ListContainers: what its GetContainer calls returned
    listRet,    \* ListContainers: the ([]Container, error) returned
    drvPc,      \* caller: the operation of the update sequence it is in
    old,        \* caller: the snapshot the update sequence began with
    trigger,    \* caller: the image id that made the first check say stale
    rechecked,  \* caller: the snapshot of the second check ("fresh", "old")
    resting     \* caller: the locals of the other sequence, when two run

daemonVars == <<exists, running, doomed, nameOf, attached>>
stopVars == <<stopPc, timeout, elapsed, polls, waitRets, stopRet, atCall>>
startVars == <<startPc, simple, creation, toDisconnect, toConnect, startRet>>

staleVars == <<pullImages, localImage, registryImage, stalePc, newImageId,
               staleRet>>

execVars == <<execPc, command, attachErr, execOutput, execLog, execRet>>

\* The variables of the operations modelled further down.
getVars == <<getPc, getId, containerInfo, getRet>>
listVars == <<listPc, fn, runningContainers, next, cs, fetched, listRet>>
drvVars == <<drvPc, old, trigger, rechecked, resting>>
restVars == <<execVars, getVars, listVars, drvVars>>
auxVars == <<infoOf, restVars>>

vars == <<c, calls, daemonVars, stopVars, startVars, staleVars, auxVars>>

\* ------------------------------------------------------------------ values
\* A daemon call: the place in the operation that issued it, the API call,
\* the container id given, its further argument and the daemon's answer.
NetCall(at, op, id, arg, net, val, res) ==
    [at |-> at, op |-> op, id |-> id, arg |-> arg, net |-> net, val |-> val,
     res |-> res]
Call(at, op, id, arg, res) == NetCall(at, op, id, arg, 0, "", res)

NoError == [err |-> "nil", name |-> "", id |-> ""]
DaemonError(e) == [err |-> e, name |-> "", id |-> ""]
\* fmt.Errorf("Container %s (%s) could not be removed", c.Name(), c.ID())
NotRemovedError(cont) ==
    [err |-> "CouldNotBeRemoved", name |-> cont.name, id |-> cont.id]

\* signal := c.StopSignal(); if signal == "" { signal = defaultStopSignal }
StopSignalOf(cont) ==
    IF cont.stopSignal = "" THEN defaultStopSignal ELSE cont.stopSignal

\* ----------------------------------------------------- the daemon's answers
\* Every call can fail in the transport.  Otherwise the answer follows from
\* the daemon's state: a missing container is "NotFound", a signal for a
\* container that is not running is refused ("Conflict").
ContainerInspectAnswers(id) ==
    {[err |-> "Transport", running |-> FALSE]} \cup
    (IF id \in exists
       THEN {[err |-> "nil", running |-> id \in running]}
       ELSE {[err |-> "NotFound", running |-> FALSE]})

ContainerKillAnswers(id) ==
    {"Transport"} \cup
    (IF id \notin exists THEN {"NotFound"}
     ELSE IF id \notin running THEN {"Conflict"}
     ELSE {"nil"})

ContainerRemoveAnswers(id) ==
    {"Transport"} \cup (IF id \in exists THEN {"nil"} ELSE {"NotFound"})

\* ------------------------------------------------------------- waitForStop
TimedOutNever(el, to) == FALSE

\* case <-timeout: the timer armed by time.After(waitTime) has fired.
TimedOut(el, to) == el >= to

\* What an answered inspect shows of ci.State.Running.
StateOf(ans) ==
    IF ans.err # "nil" THEN "" ELSE IF ans.running THEN "running" ELSE "exited"

\* One pass of the default branch: the inspect's answer decides whether the
\* wait returns (and what) or sleeps.
InspectOutcome(ans) ==
    IF ans.err # "nil" THEN ans.err
    ELSE IF ~ans.running THEN "nil"
    ELSE "sleep"

AfterFirstWaitChecked(r) == IF r = "nil" THEN "remove" ELSE "done"

\* StopContainer line 114: the first wait's result is dropped.
AfterFirstWait(r) == "remove"

StopResultInverted(r, cont) ==
    IF r # "nil" THEN NotRemovedError(cont) ELSE NoError

\* StopContainer lines 127-131: a nil from the second wait is the error.
StopResult(r, cont) == IF r = "nil" THEN NotRemovedError(cont) ELSE NoError

WaitReturns(here, r) ==
    /\ waitRets' = Append(waitRets, r)
    /\ elapsed' = 0
    /\ polls' = 0
    /\ IF here = "wait1"
         THEN /\ stopPc' = AfterFirstWait(r)
              /\ stopRet' = stopRet
         ELSE /\ stopPc' = "done"
              /\ stopRet' = StopResult(r, c)

waitForStop(here) ==
    /\ stopPc = here
    /\ IF TimedOut(elapsed, timeout)
         THEN /\ WaitReturns(here, "nil")
              /\ calls' = calls
         ELSE /\ Len(calls) < MaxCalls
              /\ \E ans \in ContainerInspectAnswers(c.id) :
                   /\ calls' = Append(calls, NetCall(here, "inspect", c.id, "", 0,
                                                     StateOf(ans), ans.err))
                   /\ IF InspectOutcome(ans) = "sleep"
                        THEN /\ \E d \in 1..(1 + MaxLatency) : elapsed' = elapsed + d
                             /\ polls' = polls + 1
                             /\ UNCHANGED <<stopPc, stopRet, waitRets>>
                        ELSE WaitReturns(here, InspectOutcome(ans))
    /\ UNCHANGED staleVars
    /\ UNCHANGED auxVars
    /\ UNCHANGED <<c, timeout, atCall, daemonVars, startVars>>

\* ----------------------------------------------------------- StopContainer
StopKill ==
    /\ stopPc = "kill"
    /\ \E a \in ContainerKillAnswers(c.id) :
         /\ calls' = Append(calls, Call("kill", "kill", c.id, StopSignalOf(c), a))
         /\ IF a = "nil"
              THEN /\ stopPc' = "wait1"
                   /\ stopRet' = stopRet
              ELSE /\ stopPc' = "done"
                   /\ stopRet' = DaemonError(a)
    /\ UNCHANGED staleVars
    /\ UNCHANGED auxVars
    /\ UNCHANGED <<c, timeout, elapsed, polls, waitRets, atCall, daemonVars,
                   startVars>>

StopWaitForStop == waitForStop("wait1")

\* A removal the daemon accepted is either done when the call returns or
\* still to be done (the container is doomed).
StopRemove ==
    /\ stopPc = "remove"
    /\ IF c.autoRemove
         THEN /\ stopPc' = "wait2"
              /\ UNCHANGED <<calls, stopRet, exists, running, doomed>>
         ELSE \E a \in ContainerRemoveAnswers(c.id) :
                /\ calls' = Append(calls, NetCall("remove", "remove", c.id, "force",
                                                  0, "keepVolumes", a))
                /\ IF a = "nil"
                     THEN /\ stopPc' = "wait2"
                          /\ stopRet' = stopRet
                          /\ \/ /\ exists' = exists \ {c.id}
                                /\ running' = running \ {c.id}
                                /\ doomed' = doomed
                             \/ /\ doomed' = doomed \cup {c.id}
                                /\ UNCHANGED <<exists, running>>
                     ELSE /\ stopPc' = "done"
                          /\ stopRet' = DaemonError(a)
                          /\ UNCHANGED <<exists, running, doomed>>
    /\ UNCHANGED staleVars
    /\ UNCHANGED auxVars
    /\ UNCHANGED <<c, timeout, elapsed, polls, waitRets, atCall, nameOf,
                   attached, startVars>>

StopWaitForRemoval == waitForStop("wait2")

StopContainer == StopKill \/ StopWaitForStop \/ StopRemove \/ StopWaitForRemoval

\* ---------------------------------------------------------- StartContainer
Restrict(f, D) == [k \in D |-> f[k]]
With(f, k, v) == [x \in DOMAIN f \cup {k} |-> IF x = k THEN v ELSE f[x]]
KeyOf(one) == IF DOMAIN one = {} THEN 0 ELSE CHOOSE k \in DOMAIN one : TRUE

\* Lines 141-149: the first entry the range over the map yields; Go ranges
\* over a map in an unspecified order, so any entry can be the one.
SimpleNetworkConfigs(networks) ==
    IF DOMAIN networks = {} THEN {NoNetworks}
    ELSE {Restrict(networks, {k}) : k \in DOMAIN networks}

\* The daemon refuses a name an existing container holds.
ContainerCreateAnswers(name) ==
    {"Transport"} \cup
    (IF \E id \in exists : nameOf[id] = name THEN {"Conflict"} ELSE {"nil"})

NetworkDisconnectAnswers(k, id) ==
    {"Transport"} \cup
    (IF id \in exists /\ k \in DOMAIN attached[id] THEN {"nil"} ELSE {"NotFound"})

NetworkConnectAnswers(k, id) ==
    {"Transport"} \cup (IF id \in exists THEN {"nil"} ELSE {"NotFound"})

ContainerStartAnswers(id) ==
    {"Transport"} \cup (IF id \in exists THEN {"nil"} ELSE {"NotFound"})

\* if err != nil { return "", err }
StartFails(e) ==
    /\ startPc' = "done"
    /\ startRet' = [id |-> "", err |-> e]

StepAfterCreateNoDisconnect(cont, disc, conn) ==
    IF cont.hostMode THEN "start"
    ELSE IF conn # {} THEN "connect"
    ELSE "start"

StepAfterCreateNoConnect(cont, disc, conn) ==
    IF cont.hostMode THEN "start"
    ELSE IF disc # {} THEN "disconnect"
    ELSE "start"

StepAfterCreateIgnoringHost(cont, disc, conn) ==
    IF disc # {} THEN "disconnect"
    ELSE IF conn # {} THEN "connect"
    ELSE "start"

\* Lines 159-177: where StartContainer goes once the container is created
\* and disc, conn are the keys its two loops have yet to visit.
StepAfterCreate(cont, disc, conn) ==
    IF cont.hostMode THEN "start"
    ELSE IF disc # {} THEN "disconnect"
    ELSE IF conn # {} THEN "connect"
    ELSE "start"

NetworksToConnectRest(networks, one) == DOMAIN networks \ DOMAIN one

\* Line 168: the connect loop ranges over the full original mapping.
NetworksToConnect(networks, one) == DOMAIN networks

ConnectFailedIgnored(a) == FALSE

\* Lines 170-172: a failed connect ends StartContainer.
ConnectFailed(a) == a # "nil"

\* Lines 136-150: the new container takes the configuration of the old one;
\* the daemon resolves the image reference of the configuration when it
\* creates the container (image is the id the reference resolves to then).
InfoCreated(cont, image) ==
    [image |-> image, imageName |-> cont.imageName,
     autoRemove |-> cont.autoRemove, stopSignal |-> cont.stopSignal,
     hostMode |-> cont.hostMode]

\* The id of the response of ContainerCreate: one the daemon never gave.
CreatedId == IF infoOf[NewId].image = 0 THEN NewId ELSE NewId2

\* The container the client created last, for any caller.
StartTargetShared(created) == IF infoOf[NewId2].image # 0 THEN NewId2 ELSE NewId

\* Lines 152-180: the calls after create go to creation.ID, a local of
\* this call of StartContainer.
StartTarget(created) == created

\* Lines 136-157.
StartCreate ==
    /\ startPc = "create"
    /\ \E one \in SimpleNetworkConfigs(c.networks) :
       \E a \in ContainerCreateAnswers(c.name) :
         /\ calls' = Append(calls, NetCall("create", "create", "", c.name,
                                           KeyOf(one), "", a))
         /\ simple' = one
         /\ IF a = "nil"
              THEN /\ creation' = CreatedId
                   /\ exists' = exists \cup {CreatedId}
                   /\ nameOf' = [nameOf EXCEPT ![CreatedId] = c.name]
                   /\ attached' = [attached EXCEPT ![CreatedId] = one]
                   /\ infoOf' = [infoOf EXCEPT ![CreatedId] =
                                   InfoCreated(c, localImage)]
                   /\ toDisconnect' = DOMAIN one
                   /\ toConnect' = NetworksToConnect(c.networks, one)
                   /\ startPc' = StepAfterCreate(c, DOMAIN one,
                                    NetworksToConnect(c.networks, one))
                   /\ startRet' = startRet
              ELSE /\ StartFails(a)
                   /\ UNCHANGED <<creation, exists, nameOf, attached, infoOf,
                                  toDisconnect, toConnect>>
    /\ UNCHANGED staleVars
    /\ UNCHANGED restVars
    /\ UNCHANGED <<c, running, doomed, stopVars>>

\* Lines 161-166.
StartDisconnect ==
    /\ startPc = "disconnect"
    /\ \E k \in toDisconnect :
       \E a \in NetworkDisconnectAnswers(k, StartTarget(creation)) :
         /\ calls' = Append(calls, NetCall("disconnect", "disconnect",
                                           StartTarget(creation),
                                           "force", k, "", a))
         /\ IF a = "nil"
              THEN /\ attached' = [attached EXCEPT ![StartTarget(creation)] =
                                    Restrict(@, DOMAIN @ \ {k})]
                   /\ toDisconnect' = toDisconnect \ {k}
                   /\ startPc' = StepAfterCreate(c, toDisconnect \ {k}, toConnect)
                   /\ startRet' = startRet
              ELSE /\ StartFails(a)
                   /\ UNCHANGED <<attached, toDisconnect>>
    /\ UNCHANGED staleVars
    /\ UNCHANGED auxVars
    /\ UNCHANGED <<c, exists, running, doomed, nameOf, simple, creation,
                   toConnect, stopVars>>

\* Lines 168-173.
StartConnect ==
    /\ startPc = "connect"
    /\ \E k \in toConnect :
       \E a \in NetworkConnectAnswers(k, StartTarget(creation)) :
         /\ calls' = Append(calls, NetCall("connect", "connect",
                                           StartTarget(creation), "",
                                           k, c.networks[k], a))
         /\ attached' = IF a = "nil"
                           THEN [attached EXCEPT ![StartTarget(creation)] =
                                    With(@, k, c.networks[k])]
                           ELSE attached
         /\ IF ConnectFailed(a)
              THEN /\ StartFails(a)
                   /\ UNCHANGED toConnect
              ELSE /\ toConnect' = toConnect \ {k}
                   /\ startPc' = IF toConnect \ {k} # {} THEN "connect" ELSE "start"
                   /\ startRet' = startRet
    /\ UNCHANGED staleVars
    /\ UNCHANGED auxVars
    /\ UNCHANGED <<c, exists, running, doomed, nameOf, simple, creation,
                   toDisconnect, stopVars>>

\* Lines 177-184.
StartStart ==
    /\ startPc = "start"
    /\ \E a \in ContainerStartAnswers(StartTarget(creation)) :
         /\ calls' = Append(calls, Call("start", "start", StartTarget(creation),
                                        "", a))
         /\ IF a = "nil"
              THEN /\ running' = running \cup {StartTarget(creation)}
                   /\ startPc' = "done"
                   /\ startRet' = [id |-> creation, err |-> "nil"]
              ELSE /\ StartFails(a)
                   /\ UNCHANGED running
    /\ UNCHANGED staleVars
    /\ UNCHANGED auxVars
    /\ UNCHANGED <<c, exists, doomed, nameOf, attached, simple, creation,
                   toDisconnect, toConnect, stopVars>>

StartContainer == StartCreate \/ StartDisconnect \/ StartConnect \/ StartStart

\* -------------------------------------------------------- IsContainerStale
\* EncodedAuth(imageName): an error, no credential ("") or a credential.
EncodedAuthAnswers ==
    {[err |-> "AuthError", auth |-> ""]} \cup
    {[err |-> "nil", auth |-> a] : a \in {"", "cred"}}

ImagePullAnswers == {"Transport", "nil"}
ReadAllAnswers == {"Transport", "nil"}

ImageInspectAnswers ==
    {[err |-> "Transport", id |-> 0]} \cup
    (IF localImage = 0 THEN {[err |-> "NotFound", id |-> 0]}
     ELSE {[err |-> "nil", id |-> localImage]})

AuthFailedOrEmpty(a) == a.err # "nil" \/ a.auth = ""

\* Lines 204-206: only an error of EncodedAuth ends the check.
AuthFailed(a) == a.err # "nil"

IsStaleInverted(newId, oldId) == newId = oldId

\* Lines 230-236: newImageInfo.ID != oldImageInfo.ID.
IsStale(newId, oldId) == newId # oldId

\* return false, err
StaleFails(e) ==
    /\ stalePc' = "done"
    /\ staleRet' = [stale |-> FALSE, err |-> e]

\* Lines 199-212.
StaleEncodedAuth ==
    /\ stalePc = "auth"
    /\ \E a \in EncodedAuthAnswers :
         /\ calls' = Append(calls, NetCall("auth", "auth", "", c.imageName, 0,
                                           a.auth, a.err))
         /\ IF AuthFailed(a)
              THEN StaleFails(a.err)
              ELSE /\ stalePc' = "pull"
                   /\ staleRet' = staleRet
    /\ UNCHANGED auxVars
    /\ UNCHANGED <<c, daemonVars, stopVars, startVars, pullImages, localImage,
                   registryImage, newImageId>>

\* Lines 214-218: opts carries the credential EncodedAuth returned.
StaleImagePull ==
    /\ stalePc = "pull"
    /\ \E a \in ImagePullAnswers :
         /\ calls' = Append(calls, NetCall("pull", "pull", "", c.imageName, 0,
                                           calls[Len(calls)].val, a))
         /\ IF a # "nil"
              THEN StaleFails(a)
              ELSE /\ stalePc' = "read"
                   /\ staleRet' = staleRet
    /\ UNCHANGED auxVars
    /\ UNCHANGED <<c, daemonVars, stopVars, startVars, pullImages, localImage,
                   registryImage, newImageId>>

\* Lines 221-222: the stream is read and the error of ReadAll is dropped.
\* The daemon finishes the pull or not (a stream read to its end can carry
\* a failure of the pull; a stream cut short can belong to a finished pull).
StaleReadAll ==
    /\ stalePc = "read"
    /\ \E a \in ReadAllAnswers :
         calls' = Append(calls, Call("read", "readAll", "", c.imageName, a))
    /\ localImage' \in {localImage, registryImage}
    /\ stalePc' = "inspect"
    /\ UNCHANGED auxVars
    /\ UNCHANGED <<c, exists, running, doomed, nameOf, attached, stopVars,
                   startVars, pullImages, registryImage, newImageId, staleRet>>

\* Lines 225-236.
StaleImageInspect ==
    /\ stalePc = "inspect"
    /\ \E a \in ImageInspectAnswers :
         /\ calls' = Append(calls, Call("inspect", "imageInspect", "",
                                        c.imageName, a.err))
         /\ newImageId' = a.id
         /\ IF a.err # "nil"
              THEN StaleFails(a.err)
              ELSE /\ stalePc' = "done"
                   /\ staleRet' = [stale |-> IsStale(a.id, c.imageId),
                                   err |-> "nil"]
    /\ UNCHANGED auxVars
    /\ UNCHANGED <<c, daemonVars, stopVars, startVars, pullImages, localImage,
                   registryImage>>

IsContainerStale ==
    StaleEncodedAuth \/ StaleImagePull \/ StaleReadAll \/ StaleImageInspect

\* A new image is pushed to the registry under the same reference.
RegistryPublishes ==
    /\ \E i \in ImageIds \ {registryImage} : registryImage' = i
    /\ UNCHANGED auxVars
    /\ UNCHANGED <<c, calls, daemonVars, stopVars, startVars, pullImages,
                   localImage, stalePc, newImageId, staleRet>>

\* ------------------------------------------------------------ GetContainer
\* The daemon's record of a container that does not exist.
NoInfo ==
    [image |-> 0, imageName |-> "", autoRemove |-> FALSE, stopSignal |-> "",
     hostMode |-> FALSE]

\* types.ContainerJSON{}
NoContainerInfo ==
    [id |-> "", name |-> "", networks |-> NoNetworks, info |-> NoInfo]

\* Container{}
EmptyContainer ==
    [id |-> "", name |-> "", autoRemove |-> FALSE, stopSignal |-> "",
     hostMode |-> FALSE, networks |-> NoNetworks, imageName |-> "",
     imageId |-> 0]

NewContainerWithoutImage(ci, imageId) ==
    [id |-> ci.id, name |-> ci.name, autoRemove |-> ci.info.autoRemove,
     stopSignal |-> ci.info.stopSignal, hostMode |-> ci.info.hostMode,
     networks |-> ci.networks, imageName |-> ci.info.imageName,
     imageId |-> 0]

\* Container{containerInfo: &containerInfo, imageInfo: &imageInfo}, as the
\* operations read it: Config.Image is the reference, imageInfo.ID the id.
NewContainer(ci, imageId) ==
    [id |-> ci.id, name |-> ci.name, autoRemove |-> ci.info.autoRemove,
     stopSignal |-> ci.info.stopSignal, hostMode |-> ci.info.hostMode,
     networks |-> ci.networks, imageName |-> ci.info.imageName,
     imageId |-> imageId]

\* ContainerInspect as GetContainer reads it.
ContainerJSONAnswers(id) ==
    {[err |-> "Transport", ci |-> NoContainerInfo]} \cup
    (IF id \in exists
       THEN {[err |-> "nil",
              ci |-> [id |-> id, name |-> nameOf[id], networks |-> attached[id],
                      info |-> infoOf[id]]]}
       ELSE {[err |-> "NotFound", ci |-> NoContainerInfo]})

\* ImageInspectWithRaw of an image id answers with the image of that id.
ImageInspectByIdAnswers(image) ==
    {[err |-> "Transport", id |-> 0], [err |-> "nil", id |-> image]}

ImageOfReference(ci) == localImage

\* Line 91: the image inspected is containerInfo.Image, the id of the image
\* the container was created from.
ImageToInspect(ci) == ci.info.image

\* return Container{}, err
GetFails(e) ==
    /\ getPc' = "done"
    /\ getRet' = [cont |-> EmptyContainer, err |-> e]

\* Lines 86-89.
GetContainerInspect ==
    /\ getPc = "container"
    /\ \E a \in ContainerJSONAnswers(getId) :
         /\ calls' = Append(calls, Call("container", "inspect", getId, "", a.err))
         /\ containerInfo' = a.ci
         /\ IF a.err # "nil"
              THEN GetFails(a.err)
              ELSE /\ getPc' = "image"
                   /\ getRet' = getRet
    /\ UNCHANGED <<listVars, drvVars>>
    /\ UNCHANGED <<c, daemonVars, stopVars, startVars, staleVars, infoOf,
                   execVars, getId>>

\* Lines 91-97.
GetImageInspect ==
    /\ getPc = "image"
    /\ \E a \in ImageInspectByIdAnswers(ImageToInspect(containerInfo)) :
         /\ calls' = Append(calls, NetCall("image", "imageInspect", "", "",
                                           ImageToInspect(containerInfo), "",
                                           a.err))
         /\ IF a.err # "nil"
              THEN GetFails(a.err)
              ELSE /\ getPc' = "done"
                   /\ getRet' = [cont |-> NewContainer(containerInfo, a.id),
                                 err |-> "nil"]
    /\ UNCHANGED <<listVars, drvVars>>
    /\ UNCHANGED <<c, daemonVars, stopVars, startVars, staleVars, infoOf,
                   execVars, getId, containerInfo>>

GetContainer == GetContainerInspect \/ GetImageInspect

\* ---------------------------------------------------------- ListContainers
\* The Filter arguments: func(Container) bool.
Filters == {"all", "named web", "not auto-remove"}

\* fn(container)
Satisfies(f, cont) ==
    CASE f = "all" -> TRUE
      [] f = "named web" -> cont.name = "web"
      [] f = "not auto-remove" -> ~cont.autoRemove

\* The sequences that list the elements of S once each.
Orderings(S) ==
    {q \in [1..Cardinality(S) -> S] : \A x \in S : \E i \in DOMAIN q : q[i] = x}

\* ContainerList with the default options lists the running containers.
ContainerListAnswers ==
    {[err |-> "Transport", list |-> <<>>]} \cup
    {[err |-> "nil", list |-> q] : q \in Orderings(running)}

AppendedAlways(list, cont, f) == Append(list, cont)

\* Lines 75-77.
Appended(list, cont, f) == IF Satisfies(f, cont) THEN Append(list, cont) ELSE list

\* return nil, err
ListFails(e) ==
    /\ listPc' = "done"
    /\ listRet' = [list |-> <<>>, err |-> e]

\* Lines 69-80: the loop goes to the container at index i of the listing,
\* or ListContainers returns the list it has built.
ListGoesTo(i, listing, list) ==
    IF i <= Len(listing)
      THEN /\ listPc' = "get"
           /\ next' = i
           /\ getPc' = "container"
           /\ getId' = listing[i]
           /\ listRet' = listRet
      ELSE /\ listPc' = "done"
           /\ next' = i
           /\ getPc' = "idle"
           /\ getId' = getId
           /\ listRet' = [list |-> list, err |-> "nil"]

\* Lines 61-69.
ListContainerList ==
    /\ listPc = "list"
    /\ \E a \in ContainerListAnswers :
         /\ calls' = Append(calls, Call("list", "list", "", "", a.err))
         /\ runningContainers' = a.list
         /\ IF a.err # "nil"
              THEN /\ ListFails(a.err)
                   /\ UNCHANGED <<next, getPc, getId>>
              ELSE ListGoesTo(1, a.list, cs)
    /\ UNCHANGED <<c, daemonVars, stopVars, startVars, staleVars, infoOf,
                   execVars, drvVars, containerInfo, getRet, fn, cs, fetched>>

\* Lines 70-78, GetContainer having returned.
ListFilter ==
    /\ listPc = "get"
    /\ getPc = "done"
    /\ fetched' = Append(fetched, getRet)
    /\ IF getRet.err # "nil"
         THEN /\ ListFails(getRet.err)
              /\ getPc' = "idle"
              /\ UNCHANGED <<next, getId, cs>>
         ELSE /\ cs' = Appended(cs, getRet.cont, fn)
              /\ ListGoesTo(next + 1, runningContainers,
                            Appended(cs, getRet.cont, fn))
    /\ UNCHANGED <<c, calls, daemonVars, stopVars, startVars, staleVars, infoOf,
                   execVars, drvVars, containerInfo, getRet, fn,
                   runningContainers>>

ListContainers == ListContainerList \/ GetContainer \/ ListFilter

\* ---------------------------------------------------------- ExecuteCommand
Commands == {"true", "exit 3"}
Outputs == {"", " ", "ok "}
\* strings.TrimSpace on the outputs above.
TrimSpace(o) == IF o = " " THEN "" ELSE IF o = "ok " THEN "ok" ELSE o
ExitCodes == 0..MaxExit

\* An exec session needs an existing, running container.
ContainerExecCreateAnswers(id) ==
    {"Transport"} \cup
    (IF id \notin exists THEN {"NotFound"}
     ELSE IF id \notin running THEN {"Conflict"}
     ELSE {"nil"})

ContainerExecAttachAnswers == {"Transport", "nil"}
ContainerExecStartAnswers == {"Transport", "nil"}
\* writer.ReadFrom(response.Reader): an error, or the bytes written.
ReadFromAnswers ==
    {[err |-> "Transport", out |-> ""]} \cup
    {[err |-> "nil", out |-> o] : o \in Outputs}
ContainerExecInspectAnswers ==
    {[err |-> "Transport", code |-> 0]} \cup
    {[err |-> "nil", code |-> x] : x \in ExitCodes}

ExecFails(e) ==
    /\ execPc' = "done"
    /\ execRet' = e

ExitCodeError(code) == IF code > 0 THEN "ExitError" ELSE "nil"

\* Lines 292-301: the exit code is logged and nil is returned.
ExecReturnFor(code) == "nil"

\* Lines 262-264: a failed attach is logged and the exec goes on.
StepAfterAttach(a) == "start"

\* Lines 242-254.
ExecCreate ==
    /\ execPc = "create"
    /\ \E a \in ContainerExecCreateAnswers(c.id) :
         /\ calls' = Append(calls, Call("create", "execCreate", c.id, command, a))
         /\ IF a # "nil"
              THEN ExecFails(a)
              ELSE /\ execPc' = "attach"
                   /\ execRet' = execRet
    /\ UNCHANGED <<infoOf, getVars, listVars, drvVars>>
    /\ UNCHANGED <<c, daemonVars, stopVars, startVars, staleVars, command,
                   attachErr, execOutput, execLog>>

\* Lines 256-264.
ExecAttach ==
    /\ execPc = "attach"
    /\ \E a \in ContainerExecAttachAnswers :
         /\ calls' = Append(calls, Call("attach", "execAttach", c.id, "", a))
         /\ attachErr' = a
         /\ execLog' = IF a # "nil" THEN Append(execLog, "error: attach")
                       ELSE execLog
         /\ execPc' = StepAfterAttach(a)
         /\ execRet' = IF StepAfterAttach(a) = "done" THEN a ELSE execRet
    /\ UNCHANGED <<infoOf, getVars, listVars, drvVars>>
    /\ UNCHANGED <<c, daemonVars, stopVars, startVars, staleVars, command,
                   execOutput>>

\* Lines 266-271.
ExecStart ==
    /\ execPc = "start"
    /\ \E a \in ContainerExecStartAnswers :
         /\ calls' = Append(calls, Call("start", "execStart", c.id, "", a))
         /\ IF a # "nil"
              THEN ExecFails(a)
              ELSE /\ execPc' = IF attachErr = "nil" THEN "read" ELSE "inspect"
                   /\ execRet' = execRet
    /\ UNCHANGED <<infoOf, getVars, listVars, drvVars>>
    /\ UNCHANGED <<c, daemonVars, stopVars, startVars, staleVars, command,
                   attachErr, execOutput, execLog>>

\* Lines 273-283: strings.TrimSpace(writer.String()) when bytes were written.
ExecRead ==
    /\ execPc = "read"
    /\ \E a \in ReadFromAnswers :
         /\ calls' = Append(calls, NetCall("read", "execRead", c.id, "", 0,
                                           a.out, a.err))
         /\ execOutput' = IF a.err = "nil" /\ a.out # ""
                            THEN TrimSpace(a.out) ELSE execOutput
         /\ execLog' = IF a.err # "nil" THEN Append(execLog, "error: read")
                       ELSE execLog
    /\ execPc' = "inspect"
    /\ UNCHANGED <<infoOf, getVars, listVars, drvVars>>
    /\ UNCHANGED <<c, daemonVars, stopVars, startVars, staleVars, command,
                   attachErr, execRet>>

\* Lines 285-301.
ExecInspect ==
    /\ execPc = "inspect"
    /\ \E a \in ContainerExecInspectAnswers :
         /\ calls' = Append(calls, NetCall("inspect", "execInspect", c.id, "",
                                           a.code, "", a.err))
         /\ execPc' = "done"
         /\ IF a.err # "nil"
              THEN /\ execRet' = a.err
                   /\ execLog' = execLog
              ELSE /\ execRet' = ExecReturnFor(a.code)
                   /\ execLog' =
                        IF a.code > 0
                          THEN execLog \o <<"error: exit code", "error: output">>
                          ELSE IF execOutput # ""
                                 THEN Append(execLog, "info: output")
                                 ELSE execLog
    /\ UNCHANGED <<infoOf, getVars, listVars, drvVars>>
    /\ UNCHANGED <<c, daemonVars, stopVars, startVars, staleVars, command,
                   attachErr, execOutput>>

ExecuteCommand ==
    ExecCreate \/ ExecAttach \/ ExecStart \/ ExecRead \/ ExecInspect

\* ------------------------------------------------- the caller of the client
\* The update sequence of one container: a snapshot is checked for
\* staleness; if it is stale the container is stopped, then started again
\* from the snapshot; the new container is fetched and checked in turn.
\* Each operation begins with an empty log of daemon calls.

\* The check said stale: StopContainer(old, timeout) is called.
DrvAfterStale ==
    /\ drvPc = "stale"
    /\ stalePc = "done"
    /\ IF staleRet.err = "nil" /\ staleRet.stale
         THEN /\ drvPc' = "stop"
              /\ trigger' = newImageId
              /\ stopPc' = "kill"
              /\ atCall' = [exists |-> c.id \in exists,
                            running |-> c.id \in running]
              /\ calls' = <<>>
         ELSE /\ drvPc' = "end"
              /\ UNCHANGED <<trigger, stopPc, atCall, calls>>
    /\ UNCHANGED <<c, daemonVars, startVars, staleVars, infoOf, execVars,
                   getVars, listVars, old, rechecked, resting, timeout,
                   elapsed, polls, waitRets, stopRet>>

\* StopContainer returned no error: StartContainer(old) is called.
DrvAfterStop ==
    /\ drvPc = "stop"
    /\ stopPc = "done"
    /\ IF stopRet.err = "nil"
         THEN /\ drvPc' = "start"
              /\ startPc' = "create"
              /\ calls' = <<>>
         ELSE /\ drvPc' = "end"
              /\ UNCHANGED <<startPc, calls>>
    /\ UNCHANGED <<c, daemonVars, stopVars, staleVars, infoOf, execVars,
                   getVars, listVars, old, trigger, rechecked, resting, simple,
                   creation, toDisconnect, toConnect, startRet>>

\* StartContainer returned an id: GetContainer(id) is called.
DrvAfterStart ==
    /\ drvPc = "start"
    /\ startPc = "done"
    /\ IF startRet.err = "nil"
         THEN /\ drvPc' = "get"
              /\ getPc' = "container"
              /\ getId' = startRet.id
              /\ calls' = <<>>
         ELSE /\ drvPc' = "end"
              /\ UNCHANGED <<getPc, getId, calls>>
    /\ UNCHANGED <<c, daemonVars, stopVars, startVars, staleVars, infoOf,
                   execVars, listVars, old, trigger, rechecked, resting,
                   containerInfo, getRet>>

\* GetContainer returned a snapshot: IsContainerStale is called on it, or
\* once more on the snapshot the sequence began with.
DrvAfterGet ==
    /\ drvPc = "get"
    /\ getPc = "done"
    /\ IF getRet.err = "nil"
         THEN /\ drvPc' = "recheck"
              /\ \E snapshot \in {"fresh", "old"} :
                   /\ rechecked' = snapshot
                   /\ c' = IF snapshot = "fresh" THEN getRet.cont ELSE old
              /\ stalePc' = IF pullImages THEN "auth" ELSE "inspect"
              /\ newImageId' = 0
              /\ staleRet' = [stale |-> FALSE, err |-> "nil"]
              /\ calls' = <<>>
         ELSE /\ drvPc' = "end"
              /\ UNCHANGED <<rechecked, c, stalePc, newImageId, staleRet, calls>>
    /\ UNCHANGED <<daemonVars, stopVars, startVars, infoOf, execVars, getVars,
                   listVars, old, trigger, resting, pullImages, localImage,
                   registryImage>>

\* Two sequences run at once: the locals of the one that is not taking a
\* step rest in a record, and the scheduler may give the turn to it before
\* any daemon call.  The daemon is the one thing the two share.
Locals ==
    [c |-> c, calls |-> calls, drvPc |-> drvPc, stopPc |-> stopPc,
     timeout |-> timeout, elapsed |-> elapsed, polls |-> polls,
     waitRets |-> waitRets, stopRet |-> stopRet, atCall |-> atCall,
     startPc |-> startPc, simple |-> simple, creation |-> creation,
     toDisconnect |-> toDisconnect, toConnect |-> toConnect,
     startRet |-> startRet]

Switch ==
    /\ DOMAIN resting # {}
    /\ resting' = Locals
    /\ c' = resting.c
    /\ calls' = resting.calls
    /\ drvPc' = resting.drvPc
    /\ stopPc' = resting.stopPc
    /\ timeout' = resting.timeout
    /\ elapsed' = resting.elapsed
    /\ polls' = resting.polls
    /\ waitRets' = resting.waitRets
    /\ stopRet' = resting.stopRet
    /\ atCall' = resting.atCall
    /\ startPc' = resting.startPc
    /\ simple' = resting.simple
    /\ creation' = resting.creation
    /\ toDisconnect' = resting.toDisconnect
    /\ toConnect' = resting.toConnect
    /\ startRet' = resting.startRet
    /\ UNCHANGED <<daemonVars, staleVars, infoOf, execVars, getVars, listVars,
                   old, trigger, rechecked>>

Driver == DrvAfterStale \/ DrvAfterStop \/ DrvAfterStart \/ DrvAfterGet

\* ---------------------------------------------------- the daemon by itself
\* A running container exits (on the signal, or by itself).
DaemonContainerExits ==
    /\ \E id \in running : running' = running \ {id}
    /\ UNCHANGED staleVars
    /\ UNCHANGED auxVars
    /\ UNCHANGED <<c, exists, doomed, nameOf, attached, calls, stopVars,
                   startVars>>

\* The daemon removes a container whose removal it accepted, or a stopped
\* container started with auto-remove.
DaemonRemovesContainer ==
    /\ \E id \in exists :
         /\ \/ id \in doomed
            \/ id = c.id /\ c.autoRemove /\ id \notin running
         /\ exists' = exists \ {id}
         /\ running' = running \ {id}
         /\ doomed' = doomed \ {id}
    /\ UNCHANGED staleVars
    /\ UNCHANGED auxVars
    /\ UNCHANGED <<c, nameOf, attached, calls, stopVars, startVars>>

\* ------------------------------------------------------- the specification
\* The Container snapshots: what the operations read of containerInfo.
Snapshots ==
    [id : {OldId}, name : {"web"}, autoRemove : BOOLEAN, stopSignal : Signals,
     hostMode : BOOLEAN, networks : NetworkMaps,
     imageName : {"web:latest"}, imageId : ImageIds]

\* The daemon when an operation is called on a snapshot of OldId: the
\* container may have stopped or gone since the snapshot was taken.
InitDaemon ==
    /\ exists \in SUBSET {OldId}
    /\ running \in SUBSET exists
    /\ doomed = {}
    /\ nameOf = [id \in Ids |-> IF id \in exists THEN c.name ELSE ""]
    /\ attached = [id \in Ids |-> IF id \in exists THEN c.networks ELSE NoNetworks]
    /\ infoOf = [id \in Ids |-> IF id \in exists THEN InfoCreated(c, c.imageId)
                                 ELSE NoInfo]

StaleIdle ==
    /\ pullImages = FALSE
    /\ localImage = c.imageId
    /\ registryImage = c.imageId
    /\ stalePc = "idle"
    /\ newImageId = 0
    /\ staleRet = [stale |-> FALSE, err |-> "nil"]

ListIdle ==
    /\ listPc = "idle"
    /\ fn = "all"
    /\ runningContainers = <<>>
    /\ next = 0
    /\ cs = <<>>
    /\ fetched = <<>>
    /\ listRet = [list |-> <<>>, err |-> "nil"]

GetIdle ==
    /\ getPc = "idle"
    /\ getId = ""
    /\ containerInfo = NoContainerInfo
    /\ getRet = [cont |-> EmptyContainer, err |-> "nil"]

DrvIdle ==
    /\ drvPc = "idle"
    /\ old = EmptyContainer
    /\ trigger = 0
    /\ rechecked = ""
    /\ resting = <<>>

ExecIdle ==
    /\ execPc = "idle"
    /\ command = ""
    /\ attachErr = "nil"
    /\ execOutput = ""
    /\ execLog = <<>>
    /\ execRet = "nil"

StartIdle ==
    /\ startPc = "idle"
    /\ simple = NoNetworks
    /\ creation = ""
    /\ toDisconnect = {}
    /\ toConnect = {}
    /\ startRet = [id |-> "", err |-> "nil"]

InitStop ==
    /\ ExecIdle /\ GetIdle /\ ListIdle /\ DrvIdle
    /\ c \in {s \in Snapshots :
                 ~s.hostMode /\ s.networks = NoNetworks /\ s.imageId = 1}
    /\ InitDaemon
    /\ StartIdle
    /\ StaleIdle
    /\ calls = <<>>
    /\ stopPc = "kill"
    /\ timeout \in 0..MaxTimeout
    /\ elapsed = 0
    /\ polls = 0
    /\ waitRets = <<>>
    /\ stopRet = NoError
    /\ atCall = [exists |-> c.id \in exists, running |-> c.id \in running]

NextStop == StopContainer \/ DaemonContainerExits \/ DaemonRemovesContainer

StopIdle ==
    /\ stopPc = "idle"
    /\ timeout = 0
    /\ elapsed = 0
    /\ polls = 0
    /\ waitRets = <<>>
    /\ stopRet = NoError
    /\ atCall = [exists |-> c.id \in exists, running |-> c.id \in running]

InitStart ==
    /\ ExecIdle /\ GetIdle /\ ListIdle /\ DrvIdle
    /\ c \in {s \in Snapshots :
                 ~s.autoRemove /\ s.stopSignal = "" /\ s.imageId = 1}
    /\ InitDaemon
    /\ StopIdle
    /\ StaleIdle
    /\ calls = <<>>
    /\ startPc = "create"
    /\ simple = NoNetworks
    /\ creation = ""
    /\ toDisconnect = {}
    /\ toConnect = {}
    /\ startRet = [id |-> "", err |-> "nil"]

NextStart == StartContainer \/ DaemonContainerExits

SpecStart == InitStart /\ [][NextStart]_vars

InitStale ==
    /\ ExecIdle /\ GetIdle /\ ListIdle /\ DrvIdle
    /\ c \in {s \in Snapshots : /\ ~s.autoRemove /\ s.stopSignal = ""
                                /\ ~s.hostMode /\ s.networks = NoNetworks}
    /\ exists = {OldId} /\ running = {OldId} /\ doomed = {}
    /\ nameOf = [id \in Ids |-> IF id \in exists THEN c.name ELSE ""]
    /\ attached = [id \in Ids |-> NoNetworks]
    /\ infoOf = [id \in Ids |-> IF id \in exists THEN InfoCreated(c, c.imageId)
                                 ELSE NoInfo]
    /\ StopIdle
    /\ StartIdle
    /\ calls = <<>>
    /\ pullImages \in BOOLEAN
    /\ localImage \in 0..MaxImages
    /\ registryImage \in ImageIds
    /\ stalePc = IF pullImages THEN "auth" ELSE "inspect"
    /\ newImageId = 0
    /\ staleRet = [stale |-> FALSE, err |-> "nil"]

NextStale == IsContainerStale \/ RegistryPublishes

SpecStale == InitStale /\ [][NextStale]_vars

InitExec ==
    /\ c \in {s \in Snapshots : /\ ~s.autoRemove /\ s.stopSignal = ""
                                /\ ~s.hostMode /\ s.networks = NoNetworks
                                /\ s.imageId = 1}
    /\ InitDaemon
    /\ StopIdle
    /\ StartIdle
    /\ StaleIdle
    /\ calls = <<>>
    /\ GetIdle /\ ListIdle /\ DrvIdle
    /\ execPc = "create"
    /\ command \in Commands
    /\ attachErr = "nil"
    /\ execOutput = ""
    /\ execLog = <<>>
    /\ execRet = "nil"

NextExec == ExecuteCommand \/ DaemonContainerExits

SpecExec == InitExec /\ [][NextExec]_vars

\* GetContainer(OldId), the local image reference having moved or not since
\* the container was created.
InitGet ==
    /\ c \in {s \in Snapshots : DOMAIN s.networks \in {{}, Nets}}
    /\ InitDaemon
    /\ StopIdle
    /\ StartIdle
    /\ pullImages = FALSE
    /\ localImage \in ImageIds
    /\ registryImage \in ImageIds
    /\ stalePc = "idle"
    /\ newImageId = 0
    /\ staleRet = [stale |-> FALSE, err |-> "nil"]
    /\ calls = <<>>
    /\ ExecIdle /\ ListIdle /\ DrvIdle
    /\ getPc = "container"
    /\ getId = OldId
    /\ containerInfo = NoContainerInfo
    /\ getRet = [cont |-> EmptyContainer, err |-> "nil"]

NextGet == GetContainer \/ DaemonContainerExits \/ DaemonRemovesContainer

SpecGet == InitGet /\ [][NextGet]_vars

\* ListContainers(fn) with up to two containers, "web" and "db".
InitList ==
    /\ c \in {s \in Snapshots : /\ s.stopSignal = "" /\ ~s.hostMode
                                /\ s.networks = NoNetworks /\ s.imageId = 1}
    /\ exists \in SUBSET {OldId, NewId}
    /\ running \in SUBSET exists
    /\ doomed = {}
    /\ nameOf = [id \in Ids |-> IF id = OldId THEN c.name ELSE "db"]
    /\ attached = [id \in Ids |-> NoNetworks]
    /\ infoOf = [id \in Ids |->
                  IF id = OldId THEN InfoCreated(c, c.imageId)
                  ELSE [InfoCreated(c, MaxImages) EXCEPT !.autoRemove = FALSE,
                                                         !.imageName = "db:1"]]
    /\ StopIdle
    /\ StartIdle
    /\ StaleIdle
    /\ ExecIdle /\ GetIdle /\ DrvIdle
    /\ calls = <<>>
    /\ listPc = "list"
    /\ fn \in Filters
    /\ runningContainers = <<>>
    /\ next = 0
    /\ cs = <<>>
    /\ fetched = <<>>
    /\ listRet = [list |-> <<>>, err |-> "nil"]

NextList == ListContainers \/ DaemonContainerExits \/ DaemonRemovesContainer

SpecList == InitList /\ [][NextList]_vars

\* The update sequence of a running container, from its snapshot.  A
\* container in host mode is attached to the host network alone.
ReplacedSnapshots ==
    {s \in Snapshots :
        /\ s.stopSignal = "" /\ s.imageId = 1
        /\ \A k \in DOMAIN s.networks : s.networks[k] = "ep1"
        /\ IF s.hostMode THEN DOMAIN s.networks = {1}
           ELSE DOMAIN s.networks \in {{1}, Nets}}

InitReplace ==
    /\ c \in ReplacedSnapshots
    /\ exists = {OldId} /\ running = {OldId} /\ doomed = {}
    /\ nameOf = [id \in Ids |-> IF id \in exists THEN c.name ELSE ""]
    /\ attached = [id \in Ids |-> IF id \in exists THEN c.networks ELSE NoNetworks]
    /\ infoOf = [id \in Ids |-> IF id \in exists THEN InfoCreated(c, c.imageId)
                                 ELSE NoInfo]
    /\ StartIdle
    /\ ExecIdle /\ GetIdle /\ ListIdle
    /\ calls = <<>>
    /\ stopPc = "idle"
    /\ timeout \in {0, MaxTimeout}
    /\ elapsed = 0
    /\ polls = 0
    /\ waitRets = <<>>
    /\ stopRet = NoError
    /\ atCall = [exists |-> TRUE, running |-> TRUE]
    /\ pullImages \in BOOLEAN
    /\ localImage \in ImageIds
    /\ registryImage \in ImageIds
    /\ stalePc = IF pullImages THEN "auth" ELSE "inspect"
    /\ newImageId = 0
    /\ staleRet = [stale |-> FALSE, err |-> "nil"]
    /\ drvPc = "stale"
    /\ old = c
    /\ trigger = 0
    /\ rechecked = ""
    /\ resting = <<>>

NextReplace ==
    \/ IsContainerStale \/ StopContainer \/ StartContainer \/ GetContainer
    \/ Driver
    \/ DaemonContainerExits \/ DaemonRemovesContainer \/ RegistryPublishes

SpecReplace == InitReplace /\ [][NextReplace]_vars

\* StopContainer then StartContainer for "web" (OldId) and for "db"
\* (OldId2), both running, the two sequences taking steps in any order.
InterleavedSnapshot(id, name) ==
    [id |-> id, name |-> name, autoRemove |-> FALSE, stopSignal |-> "",
     hostMode |-> FALSE, networks |-> [k \in {1} |-> "ep1"],
     imageName |-> "web:latest", imageId |-> 1]

InitInterleave ==
    /\ c = InterleavedSnapshot(OldId, "web")
    /\ exists = {OldId, OldId2} /\ running = exists /\ doomed = {}
    /\ nameOf = [id \in Ids |-> IF id = OldId THEN "web"
                                 ELSE IF id = OldId2 THEN "db" ELSE ""]
    /\ attached = [id \in Ids |-> IF id \in exists THEN c.networks ELSE NoNetworks]
    /\ infoOf = [id \in Ids |-> IF id \in exists THEN InfoCreated(c, c.imageId)
                                 ELSE NoInfo]
    /\ StartIdle
    /\ StaleIdle
    /\ ExecIdle /\ GetIdle /\ ListIdle
    /\ calls = <<>>
    /\ stopPc = "kill"
    /\ timeout \in {0, 1}
    /\ elapsed = 0
    /\ polls = 0
    /\ waitRets = <<>>
    /\ stopRet = NoError
    /\ atCall = [exists |-> TRUE, running |-> TRUE]
    /\ drvPc = "stop"
    /\ old = EmptyContainer
    /\ trigger = 0
    /\ rechecked = ""
    /\ resting = [Locals EXCEPT !.c = InterleavedSnapshot(OldId2, "db")]

NextInterleave ==
    \/ StopContainer \/ DrvAfterStop \/ StartContainer
    \/ Switch
    \/ DaemonContainerExits \/ DaemonRemovesContainer

SpecInterleave == InitInterleave /\ [][NextInterleave]_vars

SpecStop == InitStop /\ [][NextStop]_vars

\* The goroutine running StopContainer keeps running and every daemon call
\* returns, so an enabled step of StopContainer is eventually taken.
FairSpecStop == SpecStop /\ WF_vars(StopContainer)

\* ------------------------------------------------------------------ claims
Stopped == stopPc = "done"
CallIndices == 1..Len(calls)
InspectsAt(here) ==
    {i \in CallIndices : calls[i].op = "inspect" /\ calls[i].at = here}

\* C1: whenever StopContainer returns no error, the container it was called
\* on no longer exists in the daemon (its removal was confirmed).
C1_SuccessMeansGone ==
    (Stopped /\ stopRet.err = "nil") => c.id \notin exists

\* C2: when kill and the removal step went through and every inspect of the
\* second wait succeeded, StopContainer returns the "could not be removed"
\* error carrying the container's name and id, never success.
C2_NeverGoneIsError ==
    (/\ Stopped
     /\ Len(waitRets) = 2
     /\ \A i \in InspectsAt("wait2") : calls[i].res = "nil")
        => stopRet = NotRemovedError(c)

C2_Witness ==
    /\ Stopped
    /\ Len(waitRets) = 2
    /\ Cardinality(InspectsAt("wait2")) = MaxTimeout
    /\ \A i \in InspectsAt("wait2") : calls[i].res = "nil"
    /\ c.id \in running
    /\ \E i \in CallIndices : calls[i].op = "remove" /\ calls[i].res = "nil"
    /\ stopRet.err = "CouldNotBeRemoved" /\ stopRet.id = OldId

\* C3: an inspect that failed in the transport during either wait makes
\* StopContainer return that error.
C3_TransportSurfaced ==
    (Stopped /\ \E i \in CallIndices :
                    calls[i].op = "inspect" /\ calls[i].res = "Transport")
        => stopRet.err = "Transport"

C8_StopIsIdempotent ==
    (/\ Stopped
     /\ ~atCall.exists
     /\ \A i \in CallIndices : calls[i].res # "Transport") =>
        /\ stopRet.err = "nil"
        /\ \A i \in CallIndices : calls[i].op # "remove"

Started == startPc = "done"
CallsOf(op) == {i \in CallIndices : calls[i].op = op}
Succeeded(op, k) ==
    {i \in CallsOf(op) : calls[i].net = k /\ calls[i].res = "nil"}

\* C4: for a snapshot whose network mode is not host, a StartContainer whose
\* daemon calls all succeeded leaves the new container attached to exactly
\* the networks of the snapshot's mapping, each with its original endpoint
\* settings, whichever entry was passed to the creation call.
C4_NetworksRestored ==
    (Started /\ startRet.err = "nil" /\ ~c.hostMode) =>
        /\ startRet.id \in exists
        /\ attached[startRet.id] = c.networks

C4_Witness ==
    /\ Started /\ startRet.err = "nil" /\ ~c.hostMode
    /\ DOMAIN c.networks = Nets
    /\ c.networks[1] # c.networks[MaxNets]
    /\ KeyOf(simple) = MaxNets
    /\ attached[NewId] = c.networks
    /\ NewId \in running

\* C9: the calls of StartContainer come in the order create, the forced
\* disconnect of the creation-time network (network mode not host), the
\* connects, start: no connect before the disconnect, and start only after
\* every network of the original mapping has been connected.
C9_StartCallOrder ==
    /\ \A i \in CallIndices : (calls[i].op = "create") <=> (i = 1)
    /\ \A i \in CallsOf("disconnect") :
         /\ ~c.hostMode
         /\ calls[i].net = KeyOf(simple) /\ calls[i].arg = "force"
         /\ \A j \in CallsOf("connect") : i < j
    /\ \A j \in CallsOf("connect") :
         \E i \in Succeeded("disconnect", KeyOf(simple)) : i < j
    /\ \A s \in CallsOf("start") :
         /\ s = Len(calls)
         /\ ~c.hostMode =>
              \A k \in DOMAIN c.networks :
                \E j \in Succeeded("connect", k) :
                    j < s /\ calls[j].val = c.networks[k]

C9_Witness ==
    /\ Started /\ ~c.hostMode
    /\ DOMAIN c.networks = Nets
    /\ Len(calls) = MaxNets + 3
    /\ calls[1].op = "create" /\ calls[2].op = "disconnect"
    /\ calls[3].op = "connect" /\ calls[Len(calls)].op = "start"

\* The networks the calls answered so far have left the new container with.
AttachedByCalls ==
    ((DOMAIN simple) \ {k \in Nets : Succeeded("disconnect", k) # {}})
        \cup {k \in Nets : Succeeded("connect", k) # {}}

\* C10: a failed create, disconnect, connect or start is the last daemon call
\* of StartContainer, which returns that error with an empty id; a new id is
\* returned only when start succeeded; the created container and the
\* networks already attached are left as they are.
C10_StartAbortsOnError ==
    /\ \A i \in CallIndices : calls[i].res # "nil" =>
           /\ i = Len(calls)
           /\ Started
           /\ startRet = [id |-> "", err |-> calls[i].res]
           /\ NewId \notin running
    /\ (Started /\ startRet.id # "") =>
           /\ calls[Len(calls)].op = "start" /\ calls[Len(calls)].res = "nil"
           /\ startRet.err = "nil"
    /\ creation # "" =>
           /\ creation \in exists
           /\ DOMAIN attached[creation] = AttachedByCalls
           /\ \A i \in CallIndices :
                calls[i].op \in {"create", "disconnect", "connect", "start"}

C10_Witness ==
    /\ Started /\ startRet = [id |-> "", err |-> "Transport"]
    /\ calls[Len(calls)].op = "connect"
    /\ Succeeded("connect", 1) # {}
    /\ NewId \in exists /\ NewId \notin running
    /\ DOMAIN attached[NewId] = {1}
    /\ DOMAIN c.networks = Nets

Checked == stalePc = "done"

\* C5: IsContainerStale returns (true, nil) exactly when the id its image
\* inspect returned differs from the image id of the snapshot, and
\* (false, nil) exactly when they are equal, with pulling on or off.
C5_StaleIffIdsDiffer ==
    (Checked /\ staleRet.err = "nil") =>
        /\ calls[Len(calls)].op = "imageInspect"
        /\ calls[Len(calls)].res = "nil"
        /\ newImageId \in ImageIds
        /\ staleRet.stale = (newImageId # c.imageId)

C5_Witness ==
    /\ Checked /\ staleRet = [stale |-> TRUE, err |-> "nil"]
    /\ pullImages
    /\ CallsOf("pull") # {}
    /\ newImageId = registryImage /\ newImageId # c.imageId

\* C6: with pulling enabled a failed credential lookup ends the check with
\* (false, error) and neither a pull nor an image inspect; a failed pull ends
\* it with (false, error) and no image inspect; an empty credential is
\* followed by a pull without credential; with pulling disabled neither the
\* credential lookup nor a pull is made.
C6_AuthAndPullErrors ==
    /\ ~pullImages => CallsOf("auth") = {} /\ CallsOf("pull") = {}
    /\ \A i \in CallsOf("auth") :
         /\ pullImages /\ i = 1
         /\ IF calls[i].res # "nil"
              THEN /\ Len(calls) = 1
                   /\ Checked
                   /\ staleRet = [stale |-> FALSE, err |-> calls[i].res]
              ELSE \/ Len(calls) = 1 /\ stalePc = "pull"
                   \/ /\ Len(calls) > 1
                      /\ calls[2].op = "pull"
                      /\ calls[2].val = calls[1].val
    /\ \A i \in CallsOf("pull") :
         calls[i].res # "nil" =>
            /\ i = Len(calls)
            /\ Checked
            /\ staleRet = [stale |-> FALSE, err |-> calls[i].res]

C6_Witness ==
    /\ Checked /\ pullImages
    /\ Len(calls) = 1
    /\ calls[1].op = "auth" /\ calls[1].res = "AuthError"
    /\ staleRet = [stale |-> FALSE, err |-> "AuthError"]

\* C11: for a snapshot whose network mode is host, StartContainer issues no
\* network disconnect and no network connect: only create, then start.
C11_HostModeNoNetworkCalls ==
    c.hostMode =>
        /\ \A i \in CallIndices : calls[i].op \in {"create", "start"}
        /\ (Started /\ startRet.err = "nil") =>
               /\ Len(calls) = 2
               /\ calls[1].op = "create" /\ calls[2].op = "start"

C11_Witness ==
    /\ Started /\ startRet.err = "nil" /\ c.hostMode
    /\ DOMAIN c.networks = Nets
    /\ Len(calls) = 2
    /\ NewId \in running

\* C17: the "could not be removed" error is returned only when the second
\* wait ran into its timeout; a container that has stopped and is not yet
\* removed is polled further, not reported.
C17_ErrorOnlyAfterTimeout ==
    (/\ Stopped /\ stopRet.err = "CouldNotBeRemoved"
     /\ \A i \in CallIndices : calls[i].res # "Transport") =>
        ~(/\ calls[Len(calls)].at = "wait2"
          /\ calls[Len(calls)].val = "exited")

Rank(at) ==
    CASE at = "kill" -> 1 [] at = "wait1" -> 2 [] at = "remove" -> 3
      [] OTHER -> 4

\* C18: the calls of one StopContainer are one kill with the stop signal
\* (SIGTERM when none is set), the inspects of the first wait, one forced
\* remove keeping volumes unless the snapshot has auto-remove, the inspects
\* of the second wait; a kill error ends the call at once, a remove error
\* ends it before the second wait, and whatever the first wait returned the
\* removal step follows.
C18_StopCallSequence ==
    /\ \A i \in CallIndices :
         /\ calls[i].id = c.id
         /\ (calls[i].op = "kill") <=> (i = 1)
         /\ calls[i].op = "kill" =>
              calls[i].arg = (IF c.stopSignal = "" THEN "SIGTERM"
                              ELSE c.stopSignal)
         /\ calls[i].op = "remove" =>
              /\ ~c.autoRemove
              /\ calls[i].arg = "force" /\ calls[i].val = "keepVolumes"
         /\ calls[i].op \in {"kill", "remove"} /\ calls[i].res # "nil" =>
              /\ i = Len(calls)
              /\ Stopped
              /\ stopRet = DaemonError(calls[i].res)
         /\ \A j \in CallIndices :
              i < j => Rank(calls[i].at) <= Rank(calls[j].at)
    /\ Cardinality(CallsOf("remove")) <= 1
    /\ Len(waitRets) >= 1 =>
         \/ stopPc = "remove"
         \/ c.autoRemove /\ stopPc \in {"wait2", "done"}
         \/ CallsOf("remove") # {}

C18_Witness ==
    /\ Stopped /\ ~c.autoRemove /\ c.stopSignal = ""
    /\ calls[1].arg = "SIGTERM"
    /\ Len(waitRets) = 2 /\ waitRets[1] = "Transport"
    /\ InspectsAt("wait1") # {} /\ InspectsAt("wait2") # {}
    /\ \E i \in CallsOf("remove") : calls[i].res = "nil"

\* C19: with pulling enabled and the pull accepted, a staleness result is
\* reported only for a pull whose response stream was read to its end.
C19_ResultOnlyAfterDrain ==
    (Checked /\ staleRet.err = "nil" /\ CallsOf("pull") # {}) =>
        \E i \in CallsOf("readAll") : calls[i].res = "nil"

Executed == execPc = "done"
FailedCalls(ops) ==
    {i \in CallIndices : calls[i].op \in ops /\ calls[i].res # "nil"}

\* C12: ExecuteCommand returns an error exactly when creating, starting or
\* inspecting the exec failed; a nonzero exit code and a failed attach give
\* no error: after a failed attach the exec is started and inspected, and
\* only the reading of the output is left out.
C12_ExecErrorIffCallFailed ==
    /\ Executed =>
         /\ (execRet # "nil") <=>
              (FailedCalls({"execCreate", "execStart", "execInspect"}) # {})
         /\ \A i \in FailedCalls({"execCreate", "execStart", "execInspect"}) :
              i = Len(calls) /\ execRet = calls[i].res
    /\ \A i \in FailedCalls({"execAttach"}) :
         /\ CallsOf("execRead") = {}
         /\ execPc \in {"read", "inspect", "done"} => CallsOf("execStart") # {}
         /\ execPc # "read"
         /\ (Executed /\ FailedCalls({"execStart"}) = {}) =>
               CallsOf("execInspect") # {}

C12_Witness ==
    /\ Executed /\ execRet = "nil"
    /\ FailedCalls({"execAttach"}) # {}
    /\ \E i \in CallsOf("execInspect") :
         calls[i].res = "nil" /\ calls[i].net = MaxExit
    /\ execLog = <<"error: attach", "error: exit code", "error: output">>

Got == getPc = "done"

\* C13, as stated: the imageInfo of the snapshot GetContainer returns is
\* the image the container's image reference resolves to at fetch time, also
\* after the reference has moved since the container was started.  (The
\* reference does not move during GetContainer here, so localImage is what
\* it resolves to at fetch time.)
C13_ImageOfReferenceAtFetch ==
    (Got /\ getRet.err = "nil") => getRet.cont.imageId = localImage

\* C13, amended: the imageInfo of the snapshot GetContainer returns is the
\* image the container was created from, wherever its image reference
\* points at fetch time; the rest of the snapshot is the daemon's record of
\* the container, and a failed inspect gives the empty Container.
C13_ImageOfContainer ==
    Got =>
        IF getRet.err = "nil"
          THEN /\ getRet.cont.imageId = infoOf[getId].image
               /\ getRet.cont.imageName = infoOf[getId].imageName
               /\ getRet.cont.id = getId
               /\ getRet.cont.name = nameOf[getId]
          ELSE /\ getRet.cont = EmptyContainer
               /\ getRet.err = calls[Len(calls)].res

C13_Witness ==
    /\ Got /\ getRet.err = "nil"
    /\ localImage # infoOf[getId].image
    /\ getRet.cont.imageId = infoOf[getId].image

Listed == listPc = "done"
SatisfiesFn(r) == Satisfies(fn, r.cont)

\* C14: a list returned by ListContainers holds, in listing order, all and
\* only the containers the list call returned whose snapshot satisfies the
\* predicate; a failed inspect of a listed container or of its image makes
\* the whole call return that error and no list.
C14_ListIsFilteredListing ==
    /\ (Listed /\ listRet.err = "nil") =>
         /\ Len(fetched) = Len(runningContainers)
         /\ \A i \in DOMAIN fetched :
              /\ fetched[i].err = "nil"
              /\ fetched[i].cont.id = runningContainers[i]
         /\ listRet.list = [i \in DOMAIN SelectSeq(fetched, SatisfiesFn) |->
                               SelectSeq(fetched, SatisfiesFn)[i].cont]
    /\ \A i \in FailedCalls({"list", "inspect", "imageInspect"}) :
         /\ i = Len(calls)
         /\ Listed => listRet = [list |-> <<>>, err |-> calls[i].res]
    /\ (Listed /\ listRet.err # "nil") =>
         FailedCalls({"list", "inspect", "imageInspect"}) # {}

C14_Witness ==
    /\ Listed /\ listRet.err = "nil"
    /\ Len(runningContainers) = 2
    /\ Len(listRet.list) = 1
    /\ listRet.list[1].id = runningContainers[2]

Named(name) == {id \in exists : nameOf[id] = name}
StartReturnsId ==
    /\ drvPc = "start"
    /\ startPc # "done"
    /\ startPc' = "done"
    /\ startRet'.err = "nil"

\* C15: in an update sequence (the check said stale, StopContainer returned
\* no error, StartContainer returned an id) the old container is gone from
\* the daemon once the new one is created, no two containers ever hold the
\* same name, and when StartContainer returns, exactly one container holds
\* the name: the new one, running, attached to the networks of the old one.
C15_ReplacementKeepsOneContainer ==
    /\ [](/\ \A a, b \in exists : nameOf[a] = nameOf[b] => a = b
          /\ (drvPc = "start" /\ creation # "") => old.id \notin exists)
    /\ [][StartReturnsId =>
             /\ startRet'.id # old.id
             /\ Named(old.name)' = {startRet'.id}
             /\ startRet'.id \in running'
             /\ attached'[startRet'.id] = old.networks]_vars

C15_Witness ==
    /\ drvPc = "start" /\ Started /\ startRet.err = "nil"
    /\ DOMAIN old.networks = Nets
    /\ Named(old.name) = {NewId}
    /\ NewId \in running
    /\ DOMAIN attached[NewId] = Nets

Rechecked == drvPc = "recheck" /\ Checked

\* C20: after an update sequence that one image update set off, and while
\* the image reference still resolves to that image, IsContainerStale on a
\* fresh GetContainer snapshot of the new container returns false, and on
\* the snapshot the sequence began with it returns true again.
C20_OneUpdateOneReplacement ==
    (Rechecked /\ staleRet.err = "nil" /\ newImageId = trigger) =>
        /\ rechecked = "fresh" =>
              /\ c.id = startRet.id /\ c.id # old.id
              /\ ~staleRet.stale
        /\ rechecked = "old" =>
              /\ c = old
              /\ staleRet.stale

C20_Witness ==
    /\ Rechecked /\ staleRet.err = "nil" /\ newImageId = trigger
    /\ rechecked = "fresh" /\ ~staleRet.stale
    /\ pullImages
    /\ c.imageId = MaxImages /\ old.imageId = 1

Own(l) == {l.c.id} \cup ({l.creation} \ {""})
TargetsOwn(l) ==
    \A i \in DOMAIN l.calls :
        l.calls[i].op \in {"kill", "inspect", "remove", "disconnect", "connect",
                           "start"}
            => l.calls[i].id \in Own(l)
\* A step of the sequence whose turn it is: it makes one daemon call.
SequenceStep == resting' = resting /\ Len(calls') = Len(calls) + 1
Untouched(id) ==
    /\ (id \in exists') = (id \in exists)
    /\ (id \in running') = (id \in running)
    /\ (id \in doomed') = (id \in doomed)
    /\ nameOf'[id] = nameOf[id]
    /\ attached'[id] = attached[id]
    /\ infoOf'[id] = infoOf[id]

\* C16: when the sequences StopContainer, StartContainer of two containers
\* take their steps in any order, every kill, inspect, remove, disconnect,
\* connect and start of a sequence goes to its own container (the one of
\* its snapshot or the one its own create returned), the two never own the
\* same container or name, and a step of one sequence changes nothing of
\* the daemon's record of any container but its own, so that each sequence
\* meets the daemon it would meet alone.
C16_SequencesKeepToTheirOwn ==
    /\ [](/\ TargetsOwn(Locals) /\ TargetsOwn(resting)
          /\ Own(Locals) \cap Own(resting) = {}
          /\ \A a \in Own(Locals), b \in Own(resting) : nameOf[a] # nameOf[b])
    /\ [][SequenceStep =>
             \A id \in Ids \ Own(Locals)' : Untouched(id)]_vars

C16_Witness ==
    /\ Started /\ startRet.err = "nil"
    /\ resting.startPc = "done" /\ resting.startRet.err = "nil"
    /\ startRet.id = NewId /\ resting.startRet.id = NewId2
    /\ c.id = OldId2
    /\ \E i \in CallIndices : calls[i].op = "connect" /\ calls[i].id = NewId
    /\ \E i \in DOMAIN resting.calls :
         resting.calls[i].op = "connect" /\ resting.calls[i].id = NewId2
    /\ running = {NewId, NewId2}

====
